---- MODULE Spec2Model ----
(***************************************************************************)
(* Model of the hh.ru vacancy scraper (api.py, main.py): the ApiHhRu       *)
(* client with its refresh-on-401 GET, the paginated vacancy fetch, the    *)
(* role deduplication, the area x role sweep and the day-scoped            *)
(* deduplicating store.  Python dicts are functions from key names, so a   *)
(* missing key is a name outside DOMAIN; an exception that nothing         *)
(* catches ends the run in pc = "raised" with the kind kept in fault.      *)
(***************************************************************************)
EXTENDS Integers, Sequences, FiniteSets, Bags, TLC

\* ------------------------------------------------------------------ bounds
MaxClock == 2       \* the clock reads the instants 0..MaxClock
MaxSweeps == 2      \* runs of main.py
MaxPages == 2       \* largest "pages" value a vacancies page reports
MaxBatch == 2       \* listings one fetch_all_vacancies call gathers
MaxCats == 2        \* role categories in a /professional_roles response
MaxRoles == 2       \* roles in one category

\* --------------------------------------------------------- program constants
TicksPerDay == 2    \* instants per calendar day: strftime('%d.%m.%Y') keeps the day only
COUNTRY == "RU"
AREAS == {"A", "B"}                       \* main.py: args.regions
Transport == 0                            \* requests raised before any status arrived
Status == {Transport, 200, 401, 500}
Tokens == {"t0", "t1"}                    \* the values an access token takes

\* ------------------------------------------------------------ pure helpers
Max(a, b) == IF a >= b THEN a ELSE b

SeqsUpTo(S, n) == UNION {[1..k -> S] : k \in 0..n}

\* dict.get(key, default)
DictGet(d, key, default) == IF key \in DOMAIN d THEN d[key] ELSE default

\* datetime.utcnow().strftime('%d.%m.%Y'): the calendar day of an instant
strftime(t) == t \div TicksPerDay

\* headers = {'Authorization': f'Bearer {token}'}
Bearer(token) == <<"Bearer", token>>

\* the .env file the process starts from: the four credential keys
EnvFile ==
    [HH_RU_ACCESS_TOKEN |-> "t0", HH_RU_REFRESH_TOKEN |-> "r0",
     HH_RU_CLIENT_ID |-> "id", HH_RU_CLIENT_SECRET |-> "secret"]

\* os.getenv(key) after load_dotenv()
getenv(env, key) == env[key]

\* lines 16-18: the module constants the refresh request is built from
LoadCredentials(env) ==
    [HH_RU_REFRESH_TOKEN |-> getenv(env, "HH_RU_REFRESH_TOKEN"),
     HH_RU_CLIENT_ID |-> getenv(env, "HH_RU_CLIENT_ID"),
     HH_RU_CLIENT_SECRET |-> getenv(env, "HH_RU_CLIENT_SECRET")]

set_key_rotating(env, key, value) ==
    [env EXCEPT ![key] = value, !["HH_RU_REFRESH_TOKEN"] = value]
\* line 68: set_key(dotenv_path, key, value) rewrites that one key of the file
set_key(env, key, value) == [env EXCEPT ![key] = value]

stale_headers(old, token) == old
\* line 64: self.headers['Authorization'] = f'Bearer {self.ACCESS_TOKEN}'
refreshed_headers(old, token) == Bearer(token)

\* -------------------------------------------------------- upstream payloads
Country(name, url) == [name |-> name, url |-> url]
CountryLists ==
    SeqsUpTo({Country("RU", "u1"), Country("RU", "u2"), Country("XX", "u3"),
              Country("RU", "")}, 2)

Area(id, name) == [id |-> id, name |-> name]
ExampleAreas == <<Area(2, "B"), Area(1, "A")>>
AreaBodies ==
    { [other |-> 0],
      [areas |-> <<>>],
      [areas |-> <<Area(3, "C")>>],
      [areas |-> <<Area(2, "B"), Area(3, "C"), Area(1, "A")>> ] }

Role(id, name) == [id |-> id, name |-> name]
RoleSet == {Role(i, n) : i \in 1..2, n \in {"x", "y"}}
Category(roles) == [roles |-> roles]
BadCategory == [name |-> "c"]             \* a category without the 'roles' key
\* every /professional_roles 'categories' list within the bounds
AllCategoryLists ==
    SeqsUpTo({Category(rs) : rs \in SeqsUpTo(RoleSet, MaxRoles)} \cup {BadCategory}, MaxCats)
\* the responses the sweep is run against
ExampleCategories == <<Category(<<Role(1, "x")>>), Category(<<Role(1, "y"), Role(2, "x")>>)>>
RolesBodies ==
    { [other |-> 0],
      [categories |-> <<>>],
      [categories |-> <<Category(<<>>)>>],
      [categories |-> <<BadCategory>>],
      [categories |-> ExampleCategories] }

\* a listing is an opaque dict; 'id' and 'url' are the keys the code reads
ListingSet == {[id |-> 1, url |-> "u1"], [id |-> 2], [url |-> "u3"]}
ItemSeqs == SeqsUpTo(ListingSet, MaxBatch)
EmptyBody == [key \in {} |-> 0]            \* the JSON object {}
PageBodies ==
    [items : ItemSeqs, pages : 0..MaxPages] \cup [items : ItemSeqs] \cup [pages : 0..MaxPages]
        \cup {EmptyBody}
NoData == [none |-> TRUE]                 \* _get returned None

VARIABLES
    pc,                 \* position of the run in fetch_and_store_vacancies
    fault,              \* the exception that escaped, "none" while running
    sweeps,             \* runs started so far
    now,                \* the UTC clock
    ACCESS_TOKEN,       \* self.ACCESS_TOKEN
    headers,            \* self.headers['Authorization']
    dotenv,             \* the .env file, key by key
    credentials,        \* HH_RU_REFRESH_TOKEN, HH_RU_CLIENT_ID, HH_RU_CLIENT_SECRET in memory
    call,               \* the _get call in progress
    countries,          \* find_country_url: countries
    country_url,        \* fetch_areas: country_url
    areas,              \* fetch_and_store_vacancies: areas
    professional_roles, \* fetch_and_store_vacancies: professional_roles
    filtered_roles,     \* fetch_and_store_vacancies: filtered_roles
    ai, ri,             \* positions of the area loop and of the role loops
    vacancies, page, total_pages,   \* fetch_all_vacancies locals
    requested,          \* the page numbers this fetch_all_vacancies asked for
    served,             \* the items of the pages it got, in the order they came
    totals,             \* the total_pages values it read
    vi, inserted, duplicates, failures,   \* save_vacancies_to_db loop
    db,                 \* the collection, a bag of documents
    pairs,              \* (area id, role id) pairs this run has fetched for
    log,                \* what the run did for the pair it took last, in order
    did                 \* what this run has done so far

vars == <<pc, fault, sweeps, now, ACCESS_TOKEN, headers, dotenv, credentials, call,
          countries, country_url, areas, professional_roles, filtered_roles, ai, ri,
          vacancies, page, total_pages, requested, served, totals,
          vi, inserted, duplicates, failures, db, pairs, log, did>>

tokenVars == <<ACCESS_TOKEN, headers, dotenv, credentials>>
fetchVars == <<vacancies, page, total_pages, requested, served, totals>>
saveVars == <<vi, inserted, duplicates, failures, db>>
resolveVars == <<countries, country_url, areas, professional_roles, filtered_roles>>

Idle ==
    [phase |-> "idle", gets |-> <<>>, refreshes |-> 0, first |-> 200,
     refresh |-> "none", issued |-> "", result |-> "none"]

NothingDone == [roles |-> FALSE, vacancies |-> FALSE, insert |-> FALSE, message |-> FALSE]

\* ApiHhRu.__init__ and the locals of a run that has not started yet
Locals ==
    /\ call = Idle
    /\ countries = <<>>
    /\ country_url = ""
    /\ areas = <<>>
    /\ professional_roles = <<>>
    /\ filtered_roles = <<>>
    /\ ai = 1 /\ ri = 1
    /\ vacancies = <<>> /\ page = 0 /\ total_pages = 1
    /\ requested = <<>> /\ served = <<>> /\ totals = {}
    /\ vi = 1 /\ inserted = 0 /\ duplicates = 0 /\ failures = 0
    /\ pairs = <<>>
    /\ log = <<>>
    /\ did = NothingDone

Init ==
    /\ pc = "countries"
    /\ fault = "none"
    /\ sweeps = 1
    /\ now = 0
    /\ dotenv = EnvFile
    /\ ACCESS_TOKEN = getenv(dotenv, "HH_RU_ACCESS_TOKEN")
    /\ credentials = LoadCredentials(dotenv)
    /\ headers = Bearer(ACCESS_TOKEN)
    /\ db = EmptyBag
    /\ Locals

\* ------------------------------------------------------------------- _get
GetPcs == {"countries", "areas", "roles", "page"}

\* the roles the sweep iterates: filtered_roles category by category
RECURSIVE FlatRoles(_)
FlatRoles(cats) == IF cats = <<>> THEN <<>> ELSE Head(cats).roles \o FlatRoles(Tail(cats))

\* url and params of the GET the run is at
Url ==
    CASE pc = "countries" -> <<"/areas/countries">>
      [] pc = "areas" -> <<country_url>>
      [] pc = "roles" -> <<"/professional_roles">>
      [] pc = "page" -> <<"/vacancies", areas[ai].id, FlatRoles(filtered_roles)[ri].id, page>>

Request == [url |-> Url, auth |-> headers]

\* response.raise_for_status() then response.json(): only a 2xx answer is returned
Result(status) == IF status = 200 THEN "ok" ELSE "none"

\* line 86: a 401 on the first GET leads to the refresh, anything else to the return
AfterFirst(status) == IF status = 401 THEN "refresh" ELSE "ret"

\* lines 88-91: retry after a successful refresh, else return None
AfterRefresh(ok) == IF ok THEN "retry" ELSE "ret"

AfterRetryTwice(status) == IF status = 401 THEN "refresh" ELSE "ret"
\* lines 89-93: whatever the retry answers, the call returns
AfterRetry(status) == "ret"

ContinueInclusive(p, total) == p <= total
ContinueWhileFirstTotal(p, total) == p < Max(total, 2)
\* line 142: the loop condition of fetch_all_vacancies
Continue(p, total) == p < total

\* line 85: the first GET of a _get call
GetFirst ==
    /\ pc \in GetPcs
    /\ call.phase = "idle"
    /\ pc = "page" => Continue(page, total_pages)
    /\ \E status \in Status :
         call' = [phase |-> AfterFirst(status), gets |-> <<Request>>, refreshes |-> 0,
                  first |-> status, refresh |-> "none", issued |-> "",
                  result |-> Result(status)]
    /\ requested' = IF pc = "page" THEN Append(requested, page) ELSE requested
    /\ log' = IF pc = "page" THEN Append(log, "page") ELSE log
    /\ did' = [did EXCEPT !.roles = @ \/ pc = "roles", !.vacancies = @ \/ pc = "page"]
    /\ UNCHANGED <<pc, fault, sweeps, now, tokenVars, resolveVars, ai, ri,
                   vacancies, page, total_pages, served, totals, saveVars, pairs>>

RefreshOutcomes == {"ok", "post_failed", "no_token", "set_key_failed"}

\* lines 46-77, called from line 88
refresh_access_token ==
    /\ pc \in GetPcs
    /\ call.phase = "refresh"
    /\ \E out \in RefreshOutcomes, new_access_token \in Tokens \ {ACCESS_TOKEN} :
         CASE out = "ok" ->
                /\ ACCESS_TOKEN' = new_access_token
                /\ headers' = refreshed_headers(headers, ACCESS_TOKEN')
                /\ dotenv' = set_key(dotenv, "HH_RU_ACCESS_TOKEN", new_access_token)
                /\ UNCHANGED credentials
                /\ call' = [call EXCEPT !.phase = AfterRefresh(TRUE),
                                        !.refreshes = @ + 1, !.refresh = "ok",
                                        !.issued = new_access_token]
                /\ UNCHANGED <<pc, fault>>
           [] out = "set_key_failed" ->
                \* set_key raises after lines 63-64 ran; not a RequestException
                /\ ACCESS_TOKEN' = new_access_token
                /\ headers' = refreshed_headers(headers, ACCESS_TOKEN')
                /\ UNCHANGED <<dotenv, credentials>>
                /\ call' = [call EXCEPT !.refreshes = @ + 1, !.refresh = "raised",
                                        !.issued = new_access_token]
                /\ pc' = "raised" /\ fault' = "set_key"
           [] OTHER ->
                /\ call' = [call EXCEPT !.phase = AfterRefresh(FALSE),
                                        !.refreshes = @ + 1, !.refresh = "failed",
                                        !.result = "none"]
                /\ UNCHANGED <<pc, fault, tokenVars>>
    /\ UNCHANGED <<sweeps, now, resolveVars, ai, ri, fetchVars, saveVars, pairs, log, did>>

\* line 89: the one retry, with the refreshed header
GetRetry ==
    /\ pc \in GetPcs
    /\ call.phase = "retry"
    /\ \E status \in Status :
         call' = [call EXCEPT !.phase = AfterRetry(status), !.gets = Append(@, Request),
                              !.result = Result(status)]
    /\ UNCHANGED <<pc, fault, sweeps, now, tokenVars, resolveVars, ai, ri,
                   fetchVars, saveVars, pairs, log, did>>

\* ------------------------------------------------------ resolution of areas
find_last_country_url(list, country_name) ==
    LET hits == {i \in DOMAIN list : list[i].name = country_name}
    IN  IF hits = {} THEN ""
        ELSE list[CHOOSE i \in hits : \A j \in hits : i >= j].url
\* line 105: url of the first country with that name, '' when there is none
find_country_url(list, country_name) ==
    LET hits == {i \in DOMAIN list : list[i].name = country_name}
    IN  IF hits = {} THEN ""
        ELSE list[CHOOSE i \in hits : \A j \in hits : i <= j].url

\* line 116: the areas of the hierarchy whose name is configured
FilterAreas(tree) == SelectSeq(tree, LAMBDA area : area.name \in AREAS)

AfterAreasAlways(as) == "roles"
\* lines 180-182: no area, no sweep
AfterAreas(as) == IF as = <<>> THEN "done" ELSE "roles"

\* lines 185-187: no role category, no sweep
AfterRoles(cats) == IF cats = <<>> THEN "done" ELSE "dedup"

\* lines 98-112: fetch_countries returned; find_country_url; fetch_areas goes on or gives up
fetch_countries_return ==
    /\ pc = "countries"
    /\ call.phase = "ret"
    /\ \E body \in (IF call.result = "ok" THEN CountryLists ELSE {<<>>}) :
         LET url == find_country_url(body, COUNTRY)
         IN  /\ countries' = body
             /\ IF url = ""
                THEN /\ country_url' = ""
                     /\ pc' = AfterAreas(<<>>)
                ELSE /\ country_url' = url
                     /\ pc' = "areas"
    /\ call' = Idle
    /\ UNCHANGED <<fault, sweeps, now, tokenVars, areas, professional_roles,
                   filtered_roles, ai, ri, fetchVars, saveVars, pairs, log, did>>

\* lines 114-117 and 179-182
fetch_areas_return ==
    /\ pc = "areas"
    /\ call.phase = "ret"
    /\ \E body \in (IF call.result = "ok" THEN AreaBodies ELSE {NoData}) :
         /\ areas' = FilterAreas(DictGet(body, "areas", <<>>))
         /\ pc' = AfterAreas(areas')
    /\ call' = Idle
    /\ countries' = <<>>
    /\ country_url' = ""
    /\ UNCHANGED <<fault, sweeps, now, tokenVars, professional_roles,
                   filtered_roles, ai, ri, fetchVars, saveVars, pairs, log, did>>

\* lines 119-123 and 184-187
fetch_professional_roles_return ==
    /\ pc = "roles"
    /\ call.phase = "ret"
    /\ \E body \in (IF call.result = "ok" THEN RolesBodies ELSE {NoData}) :
         /\ professional_roles' = DictGet(body, "categories", <<>>)
         /\ pc' = AfterRoles(professional_roles')
    /\ call' = Idle
    /\ UNCHANGED <<fault, sweeps, now, tokenVars, countries, country_url, areas,
                   filtered_roles, ai, ri, fetchVars, saveVars, pairs, log, did>>

\* ------------------------------------------------------- role deduplication
RoleIds(roles) == {roles[i].id : i \in DOMAIN roles}

\* lines 194-199: the roles of one category whose id is not in unique_role_ids yet
RECURSIVE UniqueRoles(_, _)
UniqueRoles(roles, unique_role_ids) ==
    IF roles = <<>> THEN <<>>
    ELSE IF Head(roles).id \in unique_role_ids
         THEN UniqueRoles(Tail(roles), unique_role_ids)
         ELSE <<Head(roles)>> \o UniqueRoles(Tail(roles), unique_role_ids \cup {Head(roles).id})

RECURSIVE FilterFrom(_, _)
FilterFrom(cats, unique_role_ids) ==
    IF cats = <<>> THEN <<>>
    ELSE LET unique_roles_in_category == UniqueRoles(Head(cats).roles, unique_role_ids)
         IN  (IF unique_roles_in_category # <<>>
              THEN <<[roles |-> unique_roles_in_category]>> ELSE <<>>)
             \o FilterFrom(Tail(cats), unique_role_ids \cup RoleIds(Head(cats).roles))

RECURSIVE FilterLast(_)
FilterLast(cats) ==
    IF cats = <<>> THEN <<>>
    ELSE LET later == UNION {RoleIds(cats[i].roles) : i \in 2..Len(cats)}
             kept == UniqueRoles(SelectSeq(Head(cats).roles, LAMBDA r : r.id \notin later), {})
         IN  (IF kept # <<>> THEN <<[roles |-> kept]>> ELSE <<>>) \o FilterLast(Tail(cats))

\* lines 190-201
FilterRoles(cats) == FilterFrom(cats, {})

\* lines 189-201: category['roles'] raises KeyError on a category without roles
dedup_roles ==
    /\ pc = "dedup"
    /\ IF \E i \in DOMAIN professional_roles : "roles" \notin DOMAIN professional_roles[i]
       THEN /\ pc' = "raised" /\ fault' = "KeyError: 'roles'"
            /\ UNCHANGED filtered_roles
       ELSE /\ filtered_roles' = FilterRoles(professional_roles)
            /\ pc' = IF areas = <<>> THEN "done" ELSE "area"
            /\ UNCHANGED fault
    /\ ai' = 1
    /\ UNCHANGED <<sweeps, now, tokenVars, call, countries, country_url, areas,
                   professional_roles, ri, fetchVars, saveVars, pairs, log, did>>

\* ---------------------------------------------------------------- the sweep
Roles == FlatRoles(filtered_roles)

AfterPairRefetch(a, r) == [pc |-> "page", ai |-> a, ri |-> r]
\* where the loops of lines 203-207 go after the pair (a, r)
AfterPair(a, r) ==
    IF r < Len(Roles) THEN [pc |-> "role", ai |-> a, ri |-> r + 1]
    ELSE IF a < Len(areas) THEN [pc |-> "area", ai |-> a + 1, ri |-> 1]
    ELSE [pc |-> "done", ai |-> a + 1, ri |-> 1]

\* line 204: bot_send_message is not guarded; requests.post may raise
area_message ==
    /\ pc = "area"
    /\ \E sent \in BOOLEAN :
         IF sent
         THEN /\ did' = [did EXCEPT !.message = TRUE]
              /\ IF Roles = <<>>
                 THEN LET nx == AfterPair(ai, 0) IN pc' = nx.pc /\ ai' = nx.ai /\ ri' = nx.ri
                 ELSE pc' = "role" /\ ai' = ai /\ ri' = 1
              /\ UNCHANGED fault
         ELSE /\ pc' = "raised" /\ fault' = "notifier"
              /\ UNCHANGED <<did, ai, ri>>
    /\ UNCHANGED <<sweeps, now, tokenVars, call, resolveVars, fetchVars, saveVars, pairs, log>>

\* lines 208-210 and 140: progress message, then fetch_all_vacancies starts
role_message ==
    /\ pc = "role"
    /\ \E sent \in BOOLEAN :
         IF sent
         THEN /\ did' = [did EXCEPT !.message = TRUE]
              /\ pc' = "page"
              /\ pairs' = Append(pairs, <<areas[ai].id, Roles[ri].id>>)
              /\ log' = <<"progress">>
              /\ vacancies' = <<>> /\ page' = 0 /\ total_pages' = 1
              /\ requested' = <<>> /\ served' = <<>> /\ totals' = {}
              /\ UNCHANGED fault
         ELSE /\ pc' = "raised" /\ fault' = "notifier"
              /\ UNCHANGED <<did, pairs, log, fetchVars>>
    /\ UNCHANGED <<sweeps, now, tokenVars, call, resolveVars, ai, ri, saveVars>>

RetryPage == "page"
\* lines 146-148 and 154: a page that is None, empty or without items ends the loop
OnBadPage == "fetched"

\* lines 144-154: one page came back (or did not)
get_vacancies_return ==
    /\ pc = "page"
    /\ call.phase = "ret"
    /\ \E data \in (IF call.result = "ok" THEN PageBodies ELSE {NoData}) :
         IF "items" \notin DOMAIN data
            THEN /\ pc' = OnBadPage
                 /\ UNCHANGED <<vacancies, page, total_pages, served, totals>>
            ELSE /\ Len(vacancies) + Len(data.items) <= MaxBatch
                 /\ vacancies' = vacancies \o data.items
                 /\ total_pages' = DictGet(data, "pages", 1)
                 /\ served' = served \o data.items
                 /\ totals' = totals \cup {total_pages'}
                 /\ page' = page + 1
                 /\ pc' = IF Continue(page', total_pages') THEN "page" ELSE "fetched"
    /\ call' = Idle
    /\ UNCHANGED <<fault, sweeps, now, tokenVars, resolveVars, ai, ri, requested,
                   saveVars, pairs, log, did>>

\* lines 154, 211 and 158: fetch_all_vacancies returned, save_vacancies_to_db starts
save_vacancies_to_db ==
    /\ pc = "fetched"
    /\ pc' = "save"
    /\ vi' = 1 /\ inserted' = 0 /\ duplicates' = 0 /\ failures' = 0
    /\ requested' = <<>> /\ served' = <<>> /\ totals' = {}
    /\ page' = 0 /\ total_pages' = 1
    /\ UNCHANGED <<fault, sweeps, now, tokenVars, call, resolveVars, ai, ri,
                   vacancies, db, pairs, log, did>>

\* ------------------------------------------------------------------ the store
StampFirstArea(vacancy, entry_date, area_name) ==
    [k \in DOMAIN vacancy \cup {"entry_date", "area_name"} |->
        CASE k = "entry_date" -> entry_date
          [] k = "area_name" -> areas[1].name
          [] OTHER -> vacancy[k]]
\* lines 161-162: the listing gets the day and the area of the pair
Stamp(vacancy, entry_date, area_name) ==
    [k \in DOMAIN vacancy \cup {"entry_date", "area_name"} |->
        CASE k = "entry_date" -> entry_date
          [] k = "area_name" -> area_name
          [] OTHER -> vacancy[k]]

find_one_in_area(coll, id, entry_date, area_name) ==
    \E doc \in BagToSet(coll) :
        doc.id = id /\ doc.entry_date = entry_date /\ doc.area_name = area_name
find_one_by_id(coll, id, entry_date, area_name) ==
    \E doc \in BagToSet(coll) : doc.id = id
\* line 164: db.find_one({"id": ..., "entry_date": ...})
find_one(coll, id, entry_date, area_name) ==
    \E doc \in BagToSet(coll) : doc.id = id /\ doc.entry_date = entry_date

replace_one(coll, doc) ==
    LET others == {d \in BagToSet(coll) : d.id # doc.id}
    IN  [d \in others |-> CopiesIn(d, coll)] (+) SetToBag({doc})
\* line 169: db.insert_one(vacancy) adds one document
insert_one(coll, doc) == coll (+) SetToBag({doc})

count_attempted(n, stored) == n + 1
\* lines 169-170: inserted += 1 runs only when insert_one did not raise
count_inserted(n, stored) == IF stored THEN n + 1 ELSE n

\* lines 160-172: one turn of the loop of save_vacancies_to_db
save_one ==
    /\ pc = "save"
    /\ vi <= Len(vacancies)
    /\ \E utcnow \in now..MaxClock :
       LET vacancy == Stamp(vacancies[vi], strftime(utcnow), areas[ai].name)
       IN  /\ now' = utcnow
           /\ IF "id" \notin DOMAIN vacancies[vi]
                 THEN \* vacancy['id'] raises KeyError
                      /\ pc' = "raised" /\ fault' = "KeyError: 'id'"
                      /\ UNCHANGED <<saveVars, did, log>>
                 ELSE IF find_one(db, vacancy.id, vacancy.entry_date, vacancy.area_name)
                 THEN /\ duplicates' = duplicates + 1
                      /\ vi' = vi + 1
                      /\ log' = Append(log, "find_one")
                      /\ UNCHANGED <<pc, fault, inserted, failures, db, did>>
                 ELSE \E stored \in BOOLEAN :
                        /\ log' = log \o <<"find_one", "insert_one">>
                        /\ inserted' = count_inserted(inserted, stored)
                        /\ IF stored
                              THEN /\ db' = insert_one(db, vacancy)
                                   /\ vi' = vi + 1
                                   /\ did' = [did EXCEPT !.insert = TRUE]
                                   /\ UNCHANGED <<pc, fault, duplicates, failures>>
                              ELSE \* insert_one raised; the handler reads vacancy['url']
                                   /\ failures' = failures + 1
                                   /\ IF "url" \in DOMAIN vacancies[vi]
                                      THEN vi' = vi + 1 /\ UNCHANGED <<pc, fault>>
                                      ELSE vi' = vi /\ pc' = "raised" /\ fault' = "KeyError: 'url'"
                                   /\ UNCHANGED <<duplicates, db, did>>
    /\ UNCHANGED <<sweeps, tokenVars, call, resolveVars, ai, ri, fetchVars, pairs>>

\* lines 174-175, then the loops of lines 203-207 move on
summary_message ==
    /\ pc = "save"
    /\ vi > Len(vacancies)
    /\ \E sent \in BOOLEAN :
         IF sent
         THEN /\ did' = [did EXCEPT !.message = TRUE]
              /\ LET nx == AfterPair(ai, ri) IN pc' = nx.pc /\ ai' = nx.ai /\ ri' = nx.ri
              /\ vacancies' = <<>>
              /\ vi' = 1 /\ inserted' = 0 /\ duplicates' = 0 /\ failures' = 0
              /\ log' = Append(log, "summary")
              /\ UNCHANGED fault
         ELSE /\ pc' = "raised" /\ fault' = "notifier"
              /\ UNCHANGED <<did, ai, ri, vacancies, vi, inserted, duplicates, failures, log>>
    /\ UNCHANGED <<sweeps, now, tokenVars, call, resolveVars, page, total_pages,
                   requested, served, totals, db, pairs>>

\* ------------------------------------------------------------- environment
\* main.py is run again: load_dotenv, ApiHhRu(areas), fetch_and_store_vacancies
Run ==
    /\ pc \in {"done", "raised"}
    /\ sweeps < MaxSweeps
    /\ sweeps' = sweeps + 1
    /\ pc' = "countries"
    /\ fault' = "none"
    /\ ACCESS_TOKEN' = getenv(dotenv, "HH_RU_ACCESS_TOKEN")
    /\ credentials' = LoadCredentials(dotenv)
    /\ headers' = Bearer(ACCESS_TOKEN')
    /\ call' = Idle
    /\ countries' = <<>>
    /\ country_url' = ""
    /\ areas' = <<>>
    /\ professional_roles' = <<>>
    /\ filtered_roles' = <<>>
    /\ ai' = 1 /\ ri' = 1
    /\ vacancies' = <<>> /\ page' = 0 /\ total_pages' = 1
    /\ requested' = <<>> /\ served' = <<>> /\ totals' = {}
    /\ vi' = 1 /\ inserted' = 0 /\ duplicates' = 0 /\ failures' = 0
    /\ pairs' = <<>>
    /\ log' = <<>>
    /\ did' = NothingDone
    /\ UNCHANGED <<now, dotenv, db>>

Next ==
    \/ GetFirst
    \/ refresh_access_token
    \/ GetRetry
    \/ fetch_countries_return
    \/ fetch_areas_return
    \/ fetch_professional_roles_return
    \/ dedup_roles
    \/ area_message
    \/ role_message
    \/ get_vacancies_return
    \/ save_vacancies_to_db
    \/ save_one
    \/ summary_message
    \/ Run

Spec == Init /\ [][Next]_vars

\* --------------------------------------- fetch_all_vacancies on its own
\* a run that has resolved its areas and roles and enters fetch_all_vacancies
InitFetch ==
    /\ pc = "page"
    /\ fault = "none"
    /\ sweeps = 1
    /\ now = 0
    /\ dotenv \in {set_key(EnvFile, "HH_RU_ACCESS_TOKEN", t) : t \in Tokens}
    /\ ACCESS_TOKEN = getenv(dotenv, "HH_RU_ACCESS_TOKEN")
    /\ credentials = LoadCredentials(dotenv)
    /\ headers = Bearer(ACCESS_TOKEN)
    /\ db = EmptyBag
    /\ call = Idle
    /\ countries = <<>>
    /\ country_url = ""
    /\ areas = ExampleAreas
    /\ professional_roles = ExampleCategories
    /\ filtered_roles = FilterRoles(ExampleCategories)
    /\ ai \in 1..2 /\ ri \in 1..2
    /\ vacancies = <<>> /\ page = 0 /\ total_pages = 1
    /\ requested = <<>> /\ served = <<>> /\ totals = {}
    /\ vi = 1 /\ inserted = 0 /\ duplicates = 0 /\ failures = 0
    /\ pairs = <<<<areas[ai].id, FlatRoles(filtered_roles)[ri].id>>>>
    /\ log = <<"progress">>
    /\ did = [roles |-> TRUE, vacancies |-> FALSE, insert |-> FALSE, message |-> TRUE]

NextFetch ==
    \/ GetFirst
    \/ refresh_access_token
    \/ GetRetry
    \/ get_vacancies_return

SpecFetch == InitFetch /\ [][NextFetch]_vars

\* the interpreter takes the next step of the loop, and every request is answered
FairSpecFetch == SpecFetch /\ WF_vars(NextFetch)

\* ------------------------------------------ the role deduplication on its own
\* a run that got a non-empty list of role categories and is about to deduplicate it
InitRoles ==
    /\ pc = "dedup"
    /\ fault = "none"
    /\ sweeps = 1
    /\ now = 0
    /\ dotenv = EnvFile
    /\ ACCESS_TOKEN = getenv(dotenv, "HH_RU_ACCESS_TOKEN")
    /\ credentials = LoadCredentials(dotenv)
    /\ headers = Bearer(ACCESS_TOKEN)
    /\ db = EmptyBag
    /\ call = Idle
    /\ countries = <<>>
    /\ country_url = ""
    /\ areas = ExampleAreas
    /\ professional_roles \in AllCategoryLists \ {<<>>}
    /\ filtered_roles = <<>>
    /\ ai = 1 /\ ri = 1
    /\ vacancies = <<>> /\ page = 0 /\ total_pages = 1
    /\ requested = <<>> /\ served = <<>> /\ totals = {}
    /\ vi = 1 /\ inserted = 0 /\ duplicates = 0 /\ failures = 0
    /\ pairs = <<>>
    /\ log = <<>>
    /\ did = [roles |-> TRUE, vacancies |-> FALSE, insert |-> FALSE, message |-> FALSE]

NextRoles == dedup_roles

SpecRoles == InitRoles /\ [][NextRoles]_vars

\* ================================================================ claims

\* C1: in every reachable state of the store no two stored documents have the
\* same (id, entry_date) pair, whatever the upstream answered, whichever inserts
\* failed and however many runs there were.
C1_NoSameDayDuplicate ==
    \A d1 \in BagToSet(db) :
        /\ CopiesIn(d1, db) = 1
        /\ \A d2 \in BagToSet(db) :
              (d1.id = d2.id /\ d1.entry_date = d2.entry_date) => d1 = d2

\* a second run met, on the same day, a listing the store already held
C1_Witness ==
    /\ sweeps = 2
    /\ pc = "save"
    /\ duplicates >= 1
    /\ failures >= 1

\* C2: a 401 on the first GET of a _get call leads to exactly one refresh attempt;
\* after a successful refresh the same GET is sent exactly once more, with the
\* refreshed header, and whatever it answers the call returns without another
\* refresh; after a failed refresh no second GET is sent and the call has no result.
C2_OneRefreshOneRetry ==
    /\ call.refreshes <= 1
    /\ Len(call.gets) <= 2
    /\ call.refresh \in {"failed", "raised"} => Len(call.gets) = 1
    /\ call.phase = "retry" => call.first = 401 /\ call.refreshes = 1 /\ Len(call.gets) = 1
    /\ call.phase = "ret" =>
         IF call.first = 401
         THEN /\ call.refreshes = 1
              /\ call.refresh = "ok" =>
                    /\ Len(call.gets) = 2
                    /\ call.gets[2].url = call.gets[1].url
                    /\ call.gets[2].auth = Bearer(ACCESS_TOKEN)
                    /\ call.gets[2].auth # call.gets[1].auth
              /\ call.refresh # "ok" => Len(call.gets) = 1 /\ call.result = "none"
         ELSE call.refreshes = 0 /\ Len(call.gets) = 1

\* a 401, a successful refresh, and a retry that failed too
C2_Witness ==
    /\ call.phase = "ret"
    /\ call.first = 401
    /\ call.refresh = "ok"
    /\ Len(call.gets) = 2
    /\ call.result = "none"

\* C3: when save_vacancies_to_db takes a listing whose id is stored under an
\* earlier day only, the listing is not counted as a duplicate, the earlier
\* document stays, and (unless insert_one itself fails) a document with that id
\* and today's date is stored.
C3_LaterDayStoredAgain ==
    [][ ( /\ pc = "save"
          /\ vi <= Len(vacancies)
          /\ vi' = vi + 1
          /\ "id" \in DOMAIN vacancies[vi]
          /\ \E doc \in BagToSet(db) :
                doc.id = vacancies[vi].id /\ doc.entry_date < strftime(now')
          /\ ~ \E doc \in BagToSet(db) :
                doc.id = vacancies[vi].id /\ doc.entry_date = strftime(now') )
        => ( /\ duplicates' = duplicates
             /\ \A doc \in BagToSet(db) : CopiesIn(doc, db') = CopiesIn(doc, db)
             /\ failures' = failures =>
                  /\ inserted' = inserted + 1
                  /\ CopiesIn(Stamp(vacancies[vi], strftime(now'), areas[ai].name), db') = 1 )
      ]_vars

\* the store holds the same listing id under two days
C3_Witness ==
    \E d1, d2 \in BagToSet(db) : d1.id = d2.id /\ d1.entry_date < d2.entry_date

\* C4: when every page request of a fetch_all_vacancies call succeeded and every
\* page reported the same total P >= 1, the call asked for the pages 0..P-1, each
\* once and in ascending order, for no page beyond, and returns the items of those
\* pages concatenated in that order.
C4_AllPagesOnce ==
    ( /\ pc = "fetched"
      /\ page = Len(requested)
      /\ \E P \in 1..MaxPages : totals = {P} )
    => ( /\ \E P \in 1..MaxPages : totals = {P} /\ requested = [i \in 1..P |-> i - 1]
         /\ vacancies = served )

\* two pages, each reporting pages = 2, one listing on each
C4_Witness ==
    /\ pc = "fetched"
    /\ totals = {2}
    /\ requested = <<0, 1>>
    /\ Len(vacancies) = 2
    /\ vacancies[1] # vacancies[2]

MaxTotal == IF totals = {} THEN 0 ELSE CHOOSE t \in totals : \A u \in totals : u <= t

\* C5: fetch_all_vacancies terminates: it never asks for more than max(1, B) pages
\* when the totals the pages reported are at most B (so at most max(1, P) for a
\* constant P), and the loop is left.
C5_FetchTerminates ==
    /\ [](Len(requested) <= Max(1, MaxTotal))
    /\ <>(pc # "page")

\* the totals changed under way: page 0 said 2, page 1 said 1
C5_Witness ==
    /\ pc = "fetched"
    /\ totals = {1, 2}
    /\ requested = <<0, 1>>
    /\ total_pages = 1

\* C6: an insert failure on one listing does not end the batch: the run does not
\* stop with an insert failure behind it and listings of the batch still untaken.
C6_InsertFailureKeepsBatch ==
    (pc = "raised" /\ failures >= 1) => vi >= Len(vacancies)

\* the (area id, role id) pairs of the sweep, area by area
AllPairs ==
    [k \in 1..(Len(areas) * Len(Roles)) |->
        <<areas[((k - 1) \div Len(Roles)) + 1].id, Roles[((k - 1) % Len(Roles)) + 1].id>>]

\* C7: with areas and roles resolved, the sweep takes the pairs in area-major
\* order, each once, no fetch or insert failure of an earlier pair stops it, and
\* a finished sweep has taken them all.
C7_EveryPairInOrder ==
    /\ pc \in {"area", "role", "page", "fetched", "save", "done"} /\ areas # <<>> =>
          /\ Len(pairs) <= Len(AllPairs)
          /\ pairs = SubSeq(AllPairs, 1, Len(pairs))
    /\ pc = "done" /\ areas # <<>> /\ professional_roles # <<>> => pairs = AllPairs
    /\ ~(pc = "raised" /\ fault \in {"KeyError: 'id'", "KeyError: 'url'"})

\* C8: no transport failure, bad status, response without an expected field or
\* insert failure escapes as an unhandled exception.
C8_NoFaultEscapes ==
    pc = "raised" => fault \notin {"KeyError: 'roles'", "KeyError: 'id'", "KeyError: 'url'", "notifier"}

\* position of the first role with this id in a list of roles
FirstIndex(roles, id) ==
    CHOOSE i \in DOMAIN roles :
        roles[i].id = id /\ \A j \in DOMAIN roles : roles[j].id = id => i <= j

\* the first category that holds a role with this id
FirstCategory(cats, id) ==
    CHOOSE i \in DOMAIN cats :
        /\ id \in RoleIds(cats[i].roles)
        /\ \A j \in DOMAIN cats : id \in RoleIds(cats[j].roles) => i <= j

\* C9: after the deduplication every role id of the response survives exactly
\* once, as its first occurrence and in the first category that holds it; the
\* survivors keep their original order, no id is lost and no empty category is kept.
C9_FirstOccurrenceWins ==
    pc = "area" =>
        LET given == FlatRoles(professional_roles)
            kept == FlatRoles(filtered_roles)
            CatOf(c) == FirstCategory(professional_roles, filtered_roles[c].roles[1].id)
        IN  /\ \A i, j \in DOMAIN kept : i # j => kept[i].id # kept[j].id
            /\ RoleIds(kept) = RoleIds(given)
            /\ \A k \in DOMAIN kept : kept[k] = given[FirstIndex(given, kept[k].id)]
            /\ \A k \in 1..(Len(kept) - 1) :
                  FirstIndex(given, kept[k].id) < FirstIndex(given, kept[k + 1].id)
            /\ \A c \in DOMAIN filtered_roles :
                  /\ filtered_roles[c].roles # <<>>
                  /\ \A k \in DOMAIN filtered_roles[c].roles :
                        FirstCategory(professional_roles, filtered_roles[c].roles[k].id) = CatOf(c)
            /\ \A c \in 1..(Len(filtered_roles) - 1) : CatOf(c) < CatOf(c + 1)

\* the shape of the documented example: an id of the first category comes back,
\* under another name, in the second, next to a new id
C9_Witness ==
    /\ pc = "area"
    /\ Len(professional_roles) = 2
    /\ Len(professional_roles[2].roles) = 2
    /\ \E k \in DOMAIN professional_roles[1].roles :
          /\ professional_roles[2].roles[1].id = professional_roles[1].roles[k].id
          /\ professional_roles[2].roles[1] # professional_roles[1].roles[k]
    /\ professional_roles[2].roles[2].id \notin RoleIds(professional_roles[1].roles)
    /\ Len(filtered_roles) = 2
    /\ filtered_roles[2].roles = <<professional_roles[2].roles[2]>>

\* C10: a run that resolved no area fetched no roles, asked for no vacancies,
\* inserted nothing and sent no message; a run that resolved areas but no role
\* category asked for no vacancies, inserted nothing and sent no message; either
\* way the run is over at once.
C10_EmptyResolutionAborts ==
    /\ areas = <<>> =>
          /\ pc \in {"countries", "areas", "done", "raised"}
          /\ did = NothingDone
          /\ pairs = <<>>
    /\ areas # <<>> /\ professional_roles = <<>> =>
          /\ pc \in {"roles", "done", "raised"}
          /\ ~did.vacancies /\ ~did.insert /\ ~did.message
          /\ pairs = <<>>

\* a second run, with documents in the store, that found areas but no role category
C10_Witness ==
    /\ pc = "done"
    /\ sweeps = 2
    /\ areas # <<>>
    /\ professional_roles = <<>>
    /\ did.roles
    /\ db # EmptyBag

\* C11: refresh_access_token never raises: every failure of the refresh, a
\* failure to persist the new token included, is the return value False, and after
\* a refresh that did not succeed the access token in memory, the header and the
\* persisted token are what they were (the token the process loaded or last refreshed).
C11_RefreshNeverRaises ==
    /\ call.refresh # "raised"
    /\ ~(pc = "raised" /\ fault = "set_key")
    /\ call.refresh = "failed" =>
          /\ ACCESS_TOKEN = getenv(dotenv, "HH_RU_ACCESS_TOKEN")
          /\ headers = Bearer(getenv(dotenv, "HH_RU_ACCESS_TOKEN"))

\* C12: the header always carries the access token in memory; after a refresh
\* that reported success the token in memory, the header, the retried GET and the
\* token in the .env file are all the token the OAuth server just issued.
C12_RefreshedTokenEverywhere ==
    /\ headers = Bearer(ACCESS_TOKEN)
    /\ headers[2] = ACCESS_TOKEN
    /\ call.refresh = "ok" =>
          /\ call.issued \in Tokens
          /\ ACCESS_TOKEN = call.issued
          /\ headers[2] = call.issued
          /\ getenv(dotenv, "HH_RU_ACCESS_TOKEN") = call.issued
          /\ Len(call.gets) = 2 => call.gets[2].auth[2] = call.issued

\* a later run of the process that started from a refreshed token refreshed again
C12_Witness ==
    /\ sweeps = 2
    /\ pc = "page"
    /\ call.refresh = "ok"
    /\ call.issued = "t0"
    /\ Len(call.gets) = 2
    /\ call.result = "ok"

\* C16: no operation rewrites the refresh token, the client id or the client
\* secret, in memory or in the .env file, and the file keeps its four keys: only
\* HH_RU_ACCESS_TOKEN is ever rewritten.
C16_OnlyAccessTokenRewritten ==
    /\ credentials = LoadCredentials(EnvFile)
    /\ DOMAIN dotenv = DOMAIN EnvFile
    /\ \A key \in DOMAIN EnvFile \ {"HH_RU_ACCESS_TOKEN"} : dotenv[key] = EnvFile[key]

\* a refresh that failed after an earlier one had rewritten the access token
C16_Witness ==
    /\ call.refresh = "failed"
    /\ getenv(dotenv, "HH_RU_ACCESS_TOKEN") # EnvFile["HH_RU_ACCESS_TOKEN"]
    /\ ACCESS_TOKEN = getenv(dotenv, "HH_RU_ACCESS_TOKEN")

\* C13: find_country_url yields the url of the first country of the list whose
\* name is the configured name, and '' when none has it or the list could not be
\* fetched (the list is then empty); with '' fetch_areas returns [] at once, so
\* the run is over with no area and no GET was ever sent to an empty url.
C13_FirstCountryOrEmpty ==
    /\ [](\A i \in DOMAIN call.gets : call.gets[i].url # <<"">>)
    /\ [][ (pc = "countries" /\ call.phase = "ret" /\ call' = Idle) =>
             LET hits == {i \in DOMAIN countries' : countries'[i].name = COUNTRY}
             IN  /\ call.result = "none" => countries' = <<>>
                 /\ hits = {} => country_url' = ""
                 /\ hits # {} =>
                      \E i \in hits : /\ \A j \in hits : i <= j
                                      /\ country_url' = countries'[i].url
                 /\ country_url' = "" => pc' = "done" /\ areas' = <<>> /\ ~did'.roles
                 /\ country_url' # "" => pc' = "areas" ]_vars

\* two countries carry the configured name, with different urls: the first is taken
C13_Witness ==
    /\ pc = "areas"
    /\ Len(countries) = 2
    /\ countries[1].name = COUNTRY /\ countries[2].name = COUNTRY
    /\ countries[1].url # countries[2].url
    /\ country_url = countries[1].url
    /\ Len(call.gets) = 1
    /\ call.gets[1].url = <<country_url>>

\* C14: when the request for page k fails, or the page comes back empty or
\* without items, fetch_all_vacancies stops there: it has asked for the pages 0..k
\* and for none after, and it returns what the pages 0..k-1 served, nothing if k = 0.
C14_BadPageStopsFetch ==
    /\ []( (pc = "fetched" /\ Len(requested) = page + 1) =>
              /\ requested = [i \in 1..(page + 1) |-> i - 1]
              /\ vacancies = served
              /\ page = 0 => vacancies = <<>> )
    /\ [][ (pc = "page" /\ call.phase = "ret" /\ call' = Idle) =>
              /\ call.result = "none" => page' = page
              /\ page' = page =>
                    /\ pc' = "fetched"
                    /\ vacancies' = vacancies
                    /\ requested' = requested
                    /\ Len(requested') = page' + 1 ]_vars
    /\ [][ pc = "fetched" => requested' = requested \/ requested' = <<>> ]_vars

\* page 0 served a listing and announced two pages, the request for page 1 failed
C14_Witness ==
    /\ pc = "fetched"
    /\ requested = <<0, 1>>
    /\ page = 1
    /\ total_pages = 2
    /\ Len(vacancies) = 1
    /\ call = Idle

\* the stage of the work on a pair an event belongs to
Stage(event) ==
    CASE event = "progress" -> 1
      [] event = "page" -> 2
      [] event \in {"find_one", "insert_one"} -> 3
      [] event = "summary" -> 4

\* C15: for each pair the run first sends one progress message, then makes all
\* its page fetches, then all its store lookups and inserts, then sends one
\* summary: no insert comes before the last page fetch, an insert follows its
\* lookup, and a pair whose work is over ended with its summary, empty batch or not.
C15_PairEventsInOrder ==
    /\ log = <<>> => pc \notin {"role", "page", "fetched", "save"} \/ (pc = "role" /\ pairs = <<>>)
    /\ log # <<>> =>
          /\ log[1] = "progress"
          /\ \A i, j \in DOMAIN log : i < j => Stage(log[i]) <= Stage(log[j])
          /\ Cardinality({i \in DOMAIN log : log[i] = "progress"}) = 1
          /\ Cardinality({i \in DOMAIN log : log[i] = "summary"}) <= 1
          /\ \A i \in DOMAIN log : log[i] = "insert_one" => log[i - 1] = "find_one"
          /\ pc \in {"role", "area", "done"} => log[Len(log)] = "summary"
          /\ pc \in {"page", "fetched", "save"} => log[Len(log)] # "summary"
          /\ pc = "save" => Cardinality({i \in DOMAIN log : log[i] = "find_one"}) = vi - 1
    /\ pc = "save" => BagCardinality(db) >= inserted

\* a pair with two pages, a duplicate and an insert, closed by its summary
C15_Witness ==
    /\ pc \in {"role", "area", "done"}
    /\ log = <<"progress", "page", "page", "find_one", "find_one", "insert_one", "summary">>

\* C17: the store only grows: no step removes a stored document or changes one
\* of its fields, so every document keeps at least the copies it had.
C17_StoreAppendOnly ==
    [][ /\ \A doc \in BagToSet(db) : CopiesIn(doc, db') >= CopiesIn(doc, db)
        /\ BagCardinality(db') \in {BagCardinality(db), BagCardinality(db) + 1} ]_vars

\* a later run on a later day added a second document for an id stored before
C17_Witness ==
    /\ sweeps = 2
    /\ BagCardinality(db) >= 2
    /\ \E d1, d2 \in BagToSet(db) :
          d1.id = d2.id /\ d1.entry_date # d2.entry_date /\ d1.area_name # d2.area_name

\* C18: a document enters the store only in the save loop of a pair, carrying
\* the name of that pair's area, and only when no document with its id and day
\* is stored; a listing that meets such a document, under whatever pair, is
\* counted as a duplicate and the stored document, area_name included, stays.
C18_AreaOfFirstStoringPair ==
    [][ /\ db' # db =>
             /\ pc = "save"
             /\ pairs # <<>> /\ pairs[Len(pairs)][1] = areas[ai].id
             /\ \E doc \in BagToSet(db') :
                   /\ db' = db (+) SetToBag({doc})
                   /\ doc.id = vacancies[vi].id
                   /\ doc.area_name = areas[ai].name
                   /\ doc.entry_date = strftime(now')
                   /\ ~ \E d \in BagToSet(db) :
                          d.id = doc.id /\ d.entry_date = doc.entry_date
        /\ ( /\ pc = "save"
             /\ vi <= Len(vacancies)
             /\ "id" \in DOMAIN vacancies[vi]
             /\ \E d \in BagToSet(db) :
                   d.id = vacancies[vi].id /\ d.entry_date = strftime(now') )
           => duplicates' = duplicates + 1 /\ db' = db /\ vi' = vi + 1 ]_vars

\* the second area met, on the same day, a listing stored under the first area
C18_Witness ==
    /\ pc = "save"
    /\ ai = 2
    /\ vi > 1
    /\ duplicates >= 1
    /\ \E d \in BagToSet(db) :
          /\ d.id = vacancies[vi - 1].id
          /\ d.entry_date = strftime(now)
          /\ d.area_name = areas[1].name
          /\ d.area_name # areas[ai].name

\* C19: in a batch, inserted counts the documents the batch added to the store,
\* duplicates counts the listings skipped because a document with their id and
\* day was stored, a listing whose insert failed is counted in neither; so at the
\* summary inserted + duplicates <= N, with equality exactly when no insert failed.
C19_CountsMatchStore ==
    /\ []( pc = "save" =>
              /\ vi - 1 <= Len(vacancies)
              /\ inserted + duplicates + failures = vi - 1
              /\ inserted + duplicates <= vi - 1
              /\ (inserted + duplicates = vi - 1) <=> (failures = 0) )
    /\ [][ (pc = "save" /\ pc' \in {"save", "raised"}) =>
              /\ inserted' - inserted = BagCardinality(db') - BagCardinality(db)
              /\ duplicates' - duplicates \in {0, 1}
              /\ (duplicates' = duplicates + 1) <=>
                    ( /\ vi <= Len(vacancies)
                      /\ "id" \in DOMAIN vacancies[vi]
                      /\ \E d \in BagToSet(db) :
                            d.id = vacancies[vi].id /\ d.entry_date = strftime(now') )
              /\ failures' > failures => inserted' = inserted /\ duplicates' = duplicates ]_vars

\* a batch of two at its summary: one insert failed, the other listing was stored
C19_Witness ==
    /\ pc = "save"
    /\ Len(vacancies) = 2
    /\ vi = 3
    /\ failures = 1
    /\ inserted = 1
    /\ duplicates = 0

====
